---- MODULE Spec2Model ----
(***************************************************************************)
(* Model of recipes/GigaSpeech/ASR/CTC/train_with_wav2vec.py: the ASR      *)
(* brain's lifecycle hooks driven by the main script (fit, then evaluate), *)
(* and the dataset adapter dataio_prepare.                                 *)
(*                                                                         *)
(* Spec      the main script: ASR(...), fit, wer_file assignment, evaluate *)
(* SpecData  dataio_prepare: label encoder, shard_extractor, batched       *)
(***************************************************************************)
EXTENDS Integers, Sequences, FiniteSets, TLC

VARIABLES
    \* ---- main script / training loop position
    pc,                   \* "start" | "fit" | "assign" | "evaluate" | "done" | "raised"
    raised,               \* "" or the exception that ended the script
    stage,                \* stage in progress: "NONE" | "TRAIN" | "VALID" | "TEST"
    last_stage,           \* stage whose on_stage_end ran last ("NONE" before any)
    epoch,                \* hparams.epoch_counter.current
    nbatch,               \* batches processed in the stage in progress
    \* ---- configuration (the yaml file)
    hp,                   \* has_env_corrupt, has_augmentation, lr, lr_wav2vec
    wer_file,             \* hparams.wer_file: [defined, path]
    \* ---- ASR brain attributes and its collaborators
    checkpointer,         \* [present, recoverables, checkpoints, nsaved]
    wav2vec_optimizer,    \* [defined, params, lr, steps, grad]
    model_optimizer,
    lr_annealing_model,   \* scheduler: [value]
    lr_annealing_wav2vec,
    train_stats,          \* [defined, loss]
    wer_metric,           \* [defined, scores]
    cer_metric,
    wer_txt,              \* the file wer_test.txt: [written, content]
    \* ---- observation of the run
    calls,                \* the hook that ran last and the calls it made
    evaluated,            \* scores of the batches evaluated in the current stage
    epoch_train,          \* [epoch, loss] handed to the last TRAIN stage end
    \* ---- dataio_prepare
    dpc,                  \* "start" | "prepared" | "raised"
    lab_enc_file,         \* label_encoder.txt: [exists, lab2ind]
    label_encoder,        \* [lab2ind]
    corpus_chars,         \* characters that occur in the corpus transcripts
    sizes,                \* batch_size, test_batch_size
    shard,                \* per split: records read, buffer, emitted batches, ended
    last_tokens,          \* last shard_extractor output: [split, text, tokens]
    builds                \* number of times the vocabulary file was written

brain_vars == <<pc, raised, stage, last_stage, epoch, nbatch, hp, wer_file,
                checkpointer, wav2vec_optimizer, model_optimizer,
                lr_annealing_model, lr_annealing_wav2vec, train_stats,
                wer_metric, cer_metric, wer_txt, calls, evaluated, epoch_train>>
data_vars == <<dpc, lab_enc_file, label_encoder, corpus_chars, sizes, shard,
               last_tokens, builds>>
vars == <<brain_vars, data_vars>>

\* ---------------------------------------------------------------- bounds
MaxEpochs == 2
MaxBatches == 2
BatchUtts == 2
MaxRecords == 3
MaxBatchSize == 2
MaxTextLen == 2

\* Stage losses, the (model, wav2vec) rates the two schedulers may answer,
\* and the (word, character) errors of a decoded batch.
Losses == {1, 2}
NewLrs == {<<3, 4>>, <<4, 3>>}
Errs == {<<0, 0>>, <<1, 2>>}

TRAIN == "TRAIN"
VALID == "VALID"
TEST == "TEST"
Stages == {TRAIN, VALID, TEST}

RECURSIVE SumErr(_)
SumErr(s) == IF s = <<>> THEN 0 ELSE Head(s).err + SumErr(Tail(s))

\* ------------------------------------------------------------ batches
\* A padded batch of the loader: ids, waveforms with their relative lengths.
Wav(e, stg, k, i) == [utt |-> <<e, stg, k, i>>, noisy |-> FALSE, augmented |-> FALSE]

MkBatch(e, stg, k) ==
    [id       |-> [i \in 1..BatchUtts |-> <<e, stg, k, i>>],
     wavs     |-> [i \in 1..BatchUtts |-> Wav(e, stg, k, i)],
     wav_lens |-> [i \in 1..BatchUtts |-> i],
     tokens   |-> [i \in 1..BatchUtts |-> <<e, stg, k, i>>]]

NoBatch == [id |-> <<>>, wavs |-> <<>>, wav_lens |-> <<>>, tokens |-> <<>>]

\* -------------------------------------------------------- compute_forward
env_corrupt(wavs) == [i \in DOMAIN wavs |-> [wavs[i] EXCEPT !.noisy = TRUE]]

augmentation(wavs) == [i \in DOMAIN wavs |-> [wavs[i] EXCEPT !.augmented = TRUE]]

ctc_greedy_decode(p_ctc, wav_lens) == [i \in DOMAIN p_ctc |-> p_ctc[i].utt]

uses_env_corrupt_mut(stg, has_env_corrupt) == has_env_corrupt

uses_env_corrupt(stg, has_env_corrupt) == stg = TRAIN /\ has_env_corrupt

uses_augmentation(stg, has_augmentation) == stg = TRAIN /\ has_augmentation

decodes_tokens_mut(stg) == TRUE

decodes_tokens(stg) == stg # TRAIN

compute_forward(batch, stg) ==
    LET wavs0 == batch.wavs
        lens0 == batch.wav_lens
        cat   == uses_env_corrupt(stg, hp.has_env_corrupt)
        wavs1 == IF cat THEN wavs0 \o env_corrupt(wavs0) ELSE wavs0
        lens1 == IF cat THEN lens0 \o lens0 ELSE lens0
        wavs2 == IF uses_augmentation(stg, hp.has_augmentation)
                 THEN augmentation(wavs1) ELSE wavs1
        p_ctc == wavs2
    IN [batch    |-> batch,
        stage    |-> stg,
        enc_wavs |-> wavs2,
        wav_lens |-> lens1,
        p_tokens |-> IF decodes_tokens(stg)
                     THEN [none |-> FALSE, utts |-> ctc_greedy_decode(p_ctc, lens1)]
                     ELSE [none |-> TRUE, utts |-> <<>>]]

NoForward == [batch |-> NoBatch, stage |-> "NONE", enc_wavs |-> <<>>,
              wav_lens |-> <<>>, p_tokens |-> [none |-> TRUE, utts |-> <<>>]]

\* ----------------------------------------------------- compute_objectives
accumulates_metrics_mut(stg) == TRUE

accumulates_metrics(stg) == stg # TRAIN

\* The targets given to ctc_cost: doubled like the waveforms under env_corrupt.
compute_objectives_targets(batch, stg) ==
    IF hp.has_env_corrupt /\ stg = TRAIN
    THEN batch.tokens \o batch.tokens
    ELSE batch.tokens

\* ErrorRateStats.append(ids, predict, target): one score per utterance.
metric_append(metric, ids, err) ==
    [metric EXCEPT !.scores = @ \o [i \in DOMAIN ids |-> [key |-> ids[i], err |-> err]]]

compute_objectives_metric(metric, batch, stg, err) ==
    IF accumulates_metrics(stg) THEN metric_append(metric, batch.id, err) ELSE metric

\* ErrorRateStats.summarize("error_rate"), kept as the number of errors.
summarize(metric) == SumErr(metric.scores)

NoMetric == [defined |-> FALSE, scores |-> <<>>]

\* ---------------------------------------------------------------- fit_batch
NoOptimizer == [defined |-> FALSE, params |-> "", lr |-> 0, steps |-> 0, grad |-> 0]

step(opt) == [opt EXCEPT !.steps = @ + 1]

zero_grad(opt) == [opt EXCEPT !.grad = 0]

backward(opt) == [opt EXCEPT !.grad = @ + 1]

fit_batch_optimizers_mut(w, m, ok) ==
    LET w1 == backward(w)
        m1 == backward(m)
    IN IF ok
       THEN [wav2vec_optimizer |-> zero_grad(step(w1)), model_optimizer |-> zero_grad(step(m1))]
       ELSE [wav2vec_optimizer |-> w1, model_optimizer |-> m1]

\* loss.backward(); if check_gradients(loss): both step; both zero_grad.
fit_batch_optimizers(w, m, ok) ==
    LET w1 == backward(w)
        m1 == backward(m)
        w2 == IF ok THEN step(w1) ELSE w1
        m2 == IF ok THEN step(m1) ELSE m1
    IN [wav2vec_optimizer |-> zero_grad(w2), model_optimizer |-> zero_grad(m2)]

\* ----------------------------------------------------------- on_stage_start
on_stage_start_metric_mut(stg, metric) ==
    IF stg = VALID THEN [defined |-> TRUE, scores |-> <<>>] ELSE metric

on_stage_start_metric(stg, metric) ==
    IF stg # TRAIN THEN [defined |-> TRUE, scores |-> <<>>] ELSE metric

\* ------------------------------------------------------------- on_stage_end
NoStats == [defined |-> FALSE, loss |-> 0]

stores_train_stats_mut(stg, old, stage_loss) ==
    IF stg = TRAIN /\ ~old.defined THEN [defined |-> TRUE, loss |-> stage_loss] ELSE old

stores_train_stats(stg, old, stage_loss) ==
    IF stg = TRAIN THEN [defined |-> TRUE, loss |-> stage_loss] ELSE old

stage_stats_of(stg, stage_loss, cer, wer) ==
    IF stg = TRAIN
    THEN [loss |-> stage_loss, rates |-> FALSE, CER |-> 0, WER |-> 0]
    ELSE [loss |-> stage_loss, rates |-> TRUE, CER |-> summarize(cer), WER |-> summarize(wer)]

anneals_mut(stg) == stg # TRAIN

anneals(stg) == stg = VALID

writes_stats_mut(stg) == TRUE

\* The elif branch of the stage-end hook.
writes_stats(stg) == stg = TEST

\* A scheduler call: returns (old, new) and keeps the new value.
scheduler_call(sched, loss, new) == [value |-> new]

annealed_lrs_mut(new_lr_model, new_lr_wav2vec) ==
    [model_optimizer |-> new_lr_wav2vec, wav2vec_optimizer |-> new_lr_model]

annealed_lrs(new_lr_model, new_lr_wav2vec) ==
    [model_optimizer |-> new_lr_model, wav2vec_optimizer |-> new_lr_wav2vec]

update_learning_rate(opt, new_lr) == [opt EXCEPT !.lr = new_lr]

save_meta(stage_stats) == stage_stats.WER

\* Checkpointer.save_and_keep_only(meta={"WER": w}, min_keys=["WER"]): save,
\* then keep the checkpoint of lowest WER (the newest among equals) and the
\* most recent one.
save_and_keep_only(ck, w) ==
    LET n    == ck.nsaved + 1
        all  == ck.checkpoints \cup {[n |-> n, WER |-> w]}
        best == CHOOSE c \in all :
                    \A d \in all : c.WER < d.WER \/ (c.WER = d.WER /\ c.n >= d.n)
        recent == CHOOSE c \in all : \A d \in all : c.n >= d.n
    IN [ck EXCEPT !.nsaved = n, !.checkpoints = {best, recent}]

\* ----------------------------------------------------------- init_optimizers
init_recoverables_mut(present, old) ==
    IF present
    THEN old \cup {[name |-> "modelopt", params |-> "wav2vec2"],
                   [name |-> "modelopt", params |-> "model"]}
    ELSE old

init_recoverables(present, old) ==
    IF present
    THEN old \cup {[name |-> "wav2vec_opt", params |-> "wav2vec2"],
                   [name |-> "modelopt", params |-> "model"]}
    ELSE old

new_optimizer(params, lr) ==
    [defined |-> TRUE, params |-> params, lr |-> lr, steps |-> 0, grad |-> 0]


\* ======================================================== the main script
\* What a hook did: its outputs and the calls it made on the schedulers, the
\* logger, the checkpointer and the file system.
Hook(name, stg) ==
    [hook |-> name, stage |-> stg, fwd |-> NoForward, targets |-> <<>>, ok |-> FALSE,
     steps_before |-> <<0, 0>>, stage_loss |-> 0, lr_before |-> <<0, 0>>,
     lr_annealing_model |-> <<>>, lr_annealing_wav2vec |-> <<>>,
     log_stats |-> <<>>, save_and_keep_only |-> <<>>, write_stats |-> <<>>]

InitBrain ==
    /\ pc = "start" /\ raised = ""
    /\ stage = "NONE" /\ last_stage = "NONE"
    /\ epoch = 0 /\ nbatch = 0
    /\ hp \in [has_env_corrupt : BOOLEAN, has_augmentation : BOOLEAN,
               lr : {1}, lr_wav2vec : {2}]
    /\ wer_file = [defined |-> FALSE, path |-> ""]
    /\ checkpointer \in [present : BOOLEAN, recoverables : {{}},
                         checkpoints : {{}}, nsaved : {0}]
    /\ wav2vec_optimizer = NoOptimizer /\ model_optimizer = NoOptimizer
    /\ lr_annealing_model = [value |-> hp.lr]
    /\ lr_annealing_wav2vec = [value |-> hp.lr_wav2vec]
    /\ train_stats = NoStats
    /\ wer_metric = NoMetric /\ cer_metric = NoMetric
    /\ wer_txt = [written |-> FALSE, content |-> <<>>]
    /\ calls = Hook("none", "NONE")
    /\ evaluated = [wer |-> <<>>, cer |-> <<>>]
    /\ epoch_train = [epoch |-> 0, loss |-> 0]

\* asr_brain.fit(...) begins: on_fit_start calls init_optimizers.
init_optimizers ==
    /\ pc = "start"
    /\ wav2vec_optimizer' = new_optimizer("wav2vec2", hp.lr_wav2vec)
    /\ model_optimizer' = new_optimizer("model", hp.lr)
    /\ checkpointer' = [checkpointer EXCEPT
            !.recoverables = init_recoverables(checkpointer.present, @)]
    /\ pc' = "fit"
    /\ calls' = Hook("init_optimizers", "NONE")
    /\ UNCHANGED <<raised, stage, last_stage, epoch, nbatch, hp, wer_file,
                   lr_annealing_model, lr_annealing_wav2vec, train_stats,
                   wer_metric, cer_metric, wer_txt, evaluated, epoch_train>>

\* The loop enters a stage: TRAIN of the next epoch, VALID after TRAIN (fit is
\* given valid_data), TEST in evaluate.
NextStage ==
    CASE pc = "fit" /\ last_stage = TRAIN -> {VALID}
      [] pc = "fit" /\ last_stage # TRAIN /\ epoch < MaxEpochs -> {TRAIN}
      [] pc = "evaluate" /\ last_stage # TEST -> {TEST}
      [] OTHER -> {}

on_stage_start ==
    /\ pc \in {"fit", "evaluate"} /\ stage = "NONE"
    /\ \E stg \in NextStage :
        /\ stage' = stg
        /\ epoch' = IF stg = TRAIN THEN epoch + 1 ELSE epoch
        /\ cer_metric' = on_stage_start_metric(stg, cer_metric)
        /\ wer_metric' = on_stage_start_metric(stg, wer_metric)
        /\ calls' = Hook("on_stage_start", stg)
    /\ nbatch' = 0
    /\ evaluated' = [wer |-> <<>>, cer |-> <<>>]
    /\ UNCHANGED <<pc, raised, last_stage, hp, wer_file, checkpointer,
                   wav2vec_optimizer, model_optimizer, lr_annealing_model,
                   lr_annealing_wav2vec, train_stats, wer_txt, epoch_train>>

\* One training batch; ok is the verdict of check_gradients(loss).
fit_batch ==
    /\ pc = "fit" /\ stage = TRAIN /\ nbatch < MaxBatches
    /\ \E ok \in BOOLEAN :
        LET batch == MkBatch(epoch, TRAIN, nbatch + 1)
            predictions == compute_forward(batch, TRAIN)
            opts == fit_batch_optimizers(wav2vec_optimizer, model_optimizer, ok)
        IN /\ wer_metric' = compute_objectives_metric(wer_metric, batch, TRAIN, 0)
           /\ cer_metric' = compute_objectives_metric(cer_metric, batch, TRAIN, 0)
           /\ wav2vec_optimizer' = opts.wav2vec_optimizer
           /\ model_optimizer' = opts.model_optimizer
           /\ calls' = [Hook("fit_batch", TRAIN) EXCEPT
                            !.fwd = predictions, !.ok = ok,
                            !.targets = compute_objectives_targets(batch, TRAIN),
                            !.steps_before = <<wav2vec_optimizer.steps,
                                               model_optimizer.steps>>]
    /\ nbatch' = nbatch + 1
    /\ UNCHANGED <<pc, raised, stage, last_stage, epoch, hp, wer_file,
                   checkpointer, lr_annealing_model, lr_annealing_wav2vec,
                   train_stats, wer_txt, evaluated, epoch_train>>

\* One validation or test batch; err is the (word, character) error of the
\* decoded batch against its targets.
evaluate_batch ==
    /\ pc \in {"fit", "evaluate"} /\ stage \in {VALID, TEST} /\ nbatch < MaxBatches
    /\ \E err \in Errs :
        LET batch == MkBatch(epoch, stage, nbatch + 1)
            predictions == compute_forward(batch, stage)
        IN /\ wer_metric' = compute_objectives_metric(wer_metric, batch, stage, err[1])
           /\ cer_metric' = compute_objectives_metric(cer_metric, batch, stage, err[2])
           /\ calls' = [Hook("evaluate_batch", stage) EXCEPT
                            !.fwd = predictions,
                            !.targets = compute_objectives_targets(batch, stage)]
           /\ evaluated' =
                [wer |-> evaluated.wer \o
                         [i \in DOMAIN batch.id |-> [key |-> batch.id[i], err |-> err[1]]],
                 cer |-> evaluated.cer \o
                         [i \in DOMAIN batch.id |-> [key |-> batch.id[i], err |-> err[2]]]]
    /\ nbatch' = nbatch + 1
    /\ UNCHANGED <<pc, raised, stage, last_stage, epoch, hp, wer_file,
                   checkpointer, wav2vec_optimizer, model_optimizer,
                   lr_annealing_model, lr_annealing_wav2vec, train_stats,
                   wer_txt, epoch_train>>

\* The stage-end hook, called with the stage's average loss; new_lrs is what
\* the two schedulers answer when they are called.
on_stage_end ==
    /\ pc \in {"fit", "evaluate"} /\ stage # "NONE"
    /\ \E stage_loss \in Losses, new_lrs \in NewLrs :
        LET stage_stats == stage_stats_of(stage, stage_loss, cer_metric, wer_metric)
            stored == stores_train_stats(stage, train_stats, stage_loss)
            new_lr_model == new_lrs[1]
            new_lr_wav2vec == new_lrs[2]
            lrs == annealed_lrs(new_lr_model, new_lr_wav2vec)
            no_ckpt == anneals(stage) /\ ~checkpointer.present
            no_file == ~anneals(stage) /\ writes_stats(stage)
                       /\ ~(wer_file.defined /\ wer_metric.defined)
            hook == [Hook("on_stage_end", stage) EXCEPT
                        !.stage_loss = stage_loss,
                        !.lr_before = <<wav2vec_optimizer.lr, model_optimizer.lr>>]
        IN /\ train_stats' = stored
           /\ epoch_train' = IF stage = TRAIN
                             THEN [epoch |-> epoch, loss |-> stage_loss]
                             ELSE epoch_train
           /\ IF anneals(stage)
              THEN /\ lr_annealing_model' =
                          scheduler_call(lr_annealing_model, stage_stats.loss, new_lr_model)
                   /\ lr_annealing_wav2vec' =
                          scheduler_call(lr_annealing_wav2vec, stage_stats.loss, new_lr_wav2vec)
                   /\ model_optimizer' =
                          update_learning_rate(model_optimizer, lrs.model_optimizer)
                   /\ wav2vec_optimizer' =
                          update_learning_rate(wav2vec_optimizer, lrs.wav2vec_optimizer)
                   /\ checkpointer' =
                          IF checkpointer.present
                          THEN save_and_keep_only(checkpointer, save_meta(stage_stats))
                          ELSE checkpointer
                   /\ calls' = [hook EXCEPT
                          !.lr_annealing_model = <<[arg |-> stage_stats.loss,
                                                    new |-> new_lr_model]>>,
                          !.lr_annealing_wav2vec = <<[arg |-> stage_stats.loss,
                                                      new |-> new_lr_wav2vec]>>,
                          !.log_stats = <<[epoch |-> epoch,
                                           lr_model |-> lr_annealing_model.value,
                                           lr_wav2vec |-> lr_annealing_wav2vec.value,
                                           train_stats |-> stored,
                                           stats |-> stage_stats]>>,
                          !.save_and_keep_only =
                                IF checkpointer.present
                                THEN <<[WER |-> save_meta(stage_stats), min_keys |-> {"WER"}]>>
                                ELSE <<>>]
                   /\ UNCHANGED wer_txt
              ELSE /\ IF writes_stats(stage)
                      THEN /\ calls' = [hook EXCEPT
                                  !.log_stats = <<[epoch |-> epoch,
                                                   lr_model |-> 0, lr_wav2vec |-> 0,
                                                   train_stats |-> NoStats,
                                                   stats |-> stage_stats]>>,
                                  !.write_stats = IF no_file THEN <<>>
                                                  ELSE <<wer_file.path>>]
                           /\ wer_txt' = IF no_file THEN wer_txt
                                         ELSE [written |-> TRUE,
                                               content |-> wer_metric.scores]
                      ELSE /\ calls' = hook
                           /\ UNCHANGED wer_txt
                   /\ UNCHANGED <<lr_annealing_model, lr_annealing_wav2vec,
                                  model_optimizer, wav2vec_optimizer, checkpointer>>
           /\ raised' = IF no_ckpt THEN "AttributeError: checkpointer is None"
                        ELSE IF no_file THEN "AttributeError: wer_file"
                        ELSE ""
           /\ pc' = IF no_ckpt \/ no_file THEN "raised"
                    ELSE IF pc = "evaluate" THEN "done"
                    ELSE pc
    /\ last_stage' = stage
    /\ stage' = "NONE"
    /\ UNCHANGED <<epoch, nbatch, hp, wer_file, wer_metric, cer_metric, evaluated>>

\* fit returns once the epoch counter is exhausted: after a validation stage,
\* or at once when no epoch is left to run.
fit_returns ==
    /\ pc = "fit" /\ stage = "NONE" /\ last_stage # TRAIN
    /\ pc' = "assign"
    /\ calls' = Hook("fit_returns", "NONE")
    /\ UNCHANGED <<raised, stage, last_stage, epoch, nbatch, hp, wer_file,
                   checkpointer, wav2vec_optimizer, model_optimizer,
                   lr_annealing_model, lr_annealing_wav2vec, train_stats,
                   wer_metric, cer_metric, wer_txt, evaluated, epoch_train>>

\* asr_brain.hparams.wer_file = os.path.join(output_folder, "wer_test.txt")
assign_wer_file ==
    /\ pc = "assign"
    /\ wer_file' = [defined |-> TRUE, path |-> "wer_test.txt"]
    /\ pc' = "evaluate"
    /\ calls' = Hook("assign_wer_file", "NONE")
    /\ UNCHANGED <<raised, stage, last_stage, epoch, nbatch, hp,
                   checkpointer, wav2vec_optimizer, model_optimizer,
                   lr_annealing_model, lr_annealing_wav2vec, train_stats,
                   wer_metric, cer_metric, wer_txt, evaluated, epoch_train>>

\* ========================================================= dataio_prepare
Chars == {"a", "b"}
CharOrder == <<"a", "b">>
blank_label == "<blank>"
blank_index == 0
Splits == {"train", "valid", "test"}
SplitOrder == <<"train", "valid", "test">>

Labels(enc) == {p.lab : p \in enc.lab2ind}

\* CategoricalEncoder built from labels in order of appearance; the special
\* label takes its reserved index and the others the free indices after it.
RECURSIVE AddLabels(_, _, _)
AddLabels(lab2ind, labs, next) ==
    IF labs = <<>> THEN lab2ind
    ELSE IF Head(labs) \in {p.lab : p \in lab2ind}
         THEN AddLabels(lab2ind, Tail(labs), next)
         ELSE AddLabels(lab2ind \cup {[lab |-> Head(labs), ind |-> next]},
                        Tail(labs), next + 1)

BuildEncoder(labs, special_labels) ==
    AddLabels({[lab |-> blank_label, ind |-> special_labels.blank_label]},
              labs, special_labels.blank_label + 1)

\* label_encoder.load_or_create(path, from_didatasets, special_labels): load the
\* file when it exists, else build from the given datasets, save and load.
load_or_create(file, from_didatasets, special_labels) ==
    IF file.exists
    THEN [file |-> file, lab2ind |-> file.lab2ind, built |-> 0]
    ELSE LET made == BuildEncoder(from_didatasets, special_labels)
         IN [file |-> [exists |-> TRUE, lab2ind |-> made],
             lab2ind |-> made, built |-> 1]

\* The datasets handed to load_or_create: the from_didatasets argument is
\* commented out of the call, so none.
from_didatasets(corpus) == <<>>

special_labels_of(blank) == [blank_label |-> blank]

\* label_encoder.encode_sequence(char_list); KeyError on an unknown label.
can_encode(enc, char_list) == \A i \in DOMAIN char_list : char_list[i] \in Labels(enc)

encode_sequence(enc, char_list) ==
    [i \in DOMAIN char_list |->
        (CHOOSE p \in enc.lab2ind : p.lab = char_list[i]).ind]

\* shard_extractor keeps the key and the encoded transcript of a record.
shard_extractor(enc, key, text) == [id |-> key, tokens |-> encode_sequence(enc, text)]

batch_size_of_mut(split, sz) == sz.batch_size

batch_size_of(split, sz) ==
    IF split = "test" THEN sz.test_batch_size ELSE sz.batch_size

partial_mut(split) == TRUE

\* partial=False on the three pipelines.
partial(split) == FALSE

\* webdataset's batched: a full buffer is emitted when the next sample comes,
\* and at the end of the data the rest is emitted if full or if partial.
batched_sample(sh, sample, batchsize) ==
    LET full == Len(sh.buffer) >= batchsize
    IN [sh EXCEPT !.batches = IF full THEN Append(@, sh.buffer) ELSE @,
                  !.buffer = IF full THEN <<sample>> ELSE Append(@, sample),
                  !.read = @ + 1]

batched_end(sh, batchsize, keep_partial) ==
    LET emit == sh.buffer # <<>> /\ (Len(sh.buffer) = batchsize \/ keep_partial)
    IN [sh EXCEPT !.batches = IF emit THEN Append(@, sh.buffer) ELSE @,
                  !.buffer = <<>>,
                  !.ended = TRUE]

NewShard == [read |-> 0, buffer |-> <<>>, batches |-> <<>>, ended |-> FALSE]

NoTokens == [split |-> "", text |-> <<>>, tokens |-> <<>>, ok |-> TRUE]

\* Transcripts of at most MaxTextLen characters of the corpus.
Texts(chars) == UNION {[1..n -> chars] : n \in 0..MaxTextLen}

\* label_encoder.txt in the save folder: absent, or as left by an earlier run
\* that built it from this corpus.
SavedFiles(chars) ==
    {[exists |-> FALSE, lab2ind |-> {}],
     [exists |-> TRUE,
      lab2ind |-> BuildEncoder(SelectSeq(CharOrder, LAMBDA c : c \in chars),
                               special_labels_of(blank_index))]}

InitDataio ==
    /\ dpc = "start"
    /\ corpus_chars \in SUBSET Chars
    /\ lab_enc_file \in SavedFiles(corpus_chars)
    /\ label_encoder = [lab2ind |-> {}]
    /\ sizes \in [batch_size : 1..MaxBatchSize, test_batch_size : 1..MaxBatchSize]
    /\ shard = [s \in Splits |-> NewShard]
    /\ last_tokens = NoTokens
    /\ builds = 0

dataio_prepare ==
    /\ dpc = "start"
    /\ LET loaded == load_or_create(lab_enc_file, from_didatasets(corpus_chars),
                                    special_labels_of(blank_index))
       IN /\ lab_enc_file' = loaded.file
          /\ label_encoder' = [lab2ind |-> loaded.lab2ind]
          /\ builds' = builds + loaded.built
    /\ shard' = [s \in Splits |-> NewShard]
    /\ last_tokens' = NoTokens
    /\ dpc' = "prepared"
    /\ UNCHANGED <<corpus_chars, sizes>>

\* The split being iterated: train, then valid, then test.
CurrentSplit ==
    {SplitOrder[i] : i \in {j \in 1..3 :
        /\ ~shard[SplitOrder[j]].ended
        /\ \A k \in 1..(j - 1) : shard[SplitOrder[k]].ended}}

\* The pipeline of a split pulls one more record from its shards.
next_record ==
    /\ dpc = "prepared"
    /\ \E split \in CurrentSplit, text \in Texts(corpus_chars) :
        /\ shard[split].read < MaxRecords
        /\ IF can_encode(label_encoder, text)
           THEN LET rec == shard_extractor(label_encoder,
                                           <<split, shard[split].read + 1>>, text)
                IN /\ shard' = [shard EXCEPT ![split] =
                            batched_sample(@, rec.id, batch_size_of(split, sizes))]
                   /\ last_tokens' = [split |-> split, text |-> text,
                                      tokens |-> rec.tokens, ok |-> TRUE]
                   /\ dpc' = dpc
           ELSE /\ dpc' = "raised"
                /\ last_tokens' = [split |-> split, text |-> text,
                                   tokens |-> <<>>, ok |-> FALSE]
                /\ UNCHANGED shard
    /\ UNCHANGED <<lab_enc_file, label_encoder, corpus_chars, sizes, builds>>

\* The shards of a split are exhausted.
end_of_split ==
    /\ dpc = "prepared"
    /\ \E split \in CurrentSplit :
        shard' = [shard EXCEPT ![split] =
                    batched_end(@, batch_size_of(split, sizes), partial(split))]
    /\ UNCHANGED <<dpc, lab_enc_file, label_encoder, corpus_chars, sizes,
                   last_tokens, builds>>

\* The script is run again on the same save folder.
restart ==
    /\ dpc \in {"prepared", "raised"}
    /\ dpc' = "start"
    /\ label_encoder' = [lab2ind |-> {}]
    /\ shard' = [s \in Splits |-> NewShard]
    /\ last_tokens' = NoTokens
    /\ UNCHANGED <<lab_enc_file, corpus_chars, sizes, builds>>

\* The main script is held fixed while the data side runs.
IdleBrain ==
    /\ InitBrain
    /\ ~hp.has_env_corrupt /\ ~hp.has_augmentation /\ checkpointer.present

NextData ==
    \/ dataio_prepare /\ UNCHANGED brain_vars
    \/ next_record /\ UNCHANGED brain_vars
    \/ end_of_split /\ UNCHANGED brain_vars
    \/ restart /\ UNCHANGED brain_vars

InitData == IdleBrain /\ InitDataio

SpecData == InitData /\ [][NextData]_vars

\* The data side is held fixed while the main script runs.
IdleData ==
    /\ InitDataio
    /\ ~lab_enc_file.exists /\ corpus_chars = {}
    /\ sizes = [batch_size |-> 1, test_batch_size |-> 1]

Init == InitBrain /\ IdleData

Next ==
    \/ init_optimizers /\ UNCHANGED data_vars
    \/ on_stage_start /\ UNCHANGED data_vars
    \/ fit_batch /\ UNCHANGED data_vars
    \/ evaluate_batch /\ UNCHANGED data_vars
    \/ on_stage_end /\ UNCHANGED data_vars
    \/ fit_returns /\ UNCHANGED data_vars
    \/ assign_wer_file /\ UNCHANGED data_vars

Spec == Init /\ [][Next]_vars

\* ================================================================ claims
StageEnded(stg) == calls.hook = "on_stage_end" /\ calls.stage = stg

\* C1: at a VALID stage end each of the two schedulers is called once with the
\* validation loss and each optimizer takes the rate its own scheduler
\* answered; a TRAIN or TEST stage end calls no scheduler and leaves both
\* learning rates as they were.
C1_AnnealsBothOnValidOnly ==
    /\ StageEnded(VALID) =>
        /\ Len(calls.lr_annealing_model) = 1
        /\ Len(calls.lr_annealing_wav2vec) = 1
        /\ calls.lr_annealing_model[1].arg = calls.stage_loss
        /\ calls.lr_annealing_wav2vec[1].arg = calls.stage_loss
        /\ model_optimizer.lr = calls.lr_annealing_model[1].new
        /\ wav2vec_optimizer.lr = calls.lr_annealing_wav2vec[1].new
    /\ (StageEnded(TRAIN) \/ StageEnded(TEST)) =>
        /\ calls.lr_annealing_model = <<>>
        /\ calls.lr_annealing_wav2vec = <<>>
        /\ <<wav2vec_optimizer.lr, model_optimizer.lr>> = calls.lr_before

C1_Witness ==
    /\ StageEnded(VALID)
    /\ epoch = 2
    /\ <<wav2vec_optimizer.lr, model_optimizer.lr>> # calls.lr_before
    /\ model_optimizer.lr # wav2vec_optimizer.lr

MinWer(cks) == CHOOSE w \in {c.WER : c \in cks} : \A c \in cks : w <= c.WER

\* C2: every VALID stage end triggers exactly one checkpoint save, carrying
\* the WER of that validation stage and keeping by minimum WER; a TRAIN or
\* TEST stage end triggers none.
C2_SavesOncePerValidEnd ==
    /\ StageEnded(VALID) =>
        /\ Len(calls.save_and_keep_only) = 1
        /\ calls.save_and_keep_only[1].WER = SumErr(evaluated.wer)
        /\ calls.save_and_keep_only[1].min_keys = {"WER"}
    /\ (StageEnded(TRAIN) \/ StageEnded(TEST)) => calls.save_and_keep_only = <<>>

\* C2, where a checkpointer is configured: the save happens as stated and the
\* lowest WER among the retained checkpoints never rises.
C2_WithCheckpointer == checkpointer.present => C2_SavesOncePerValidEnd

C2_RetainsBest ==
    [][(checkpointer.present /\ calls'.hook = "on_stage_end" /\ calls'.stage = VALID)
        => /\ checkpointer'.checkpoints # {}
           /\ MinWer(checkpointer'.checkpoints) <= calls'.save_and_keep_only[1].WER
           /\ checkpointer.checkpoints # {} =>
                MinWer(checkpointer'.checkpoints) = 
                    IF calls'.save_and_keep_only[1].WER < MinWer(checkpointer.checkpoints)
                    THEN calls'.save_and_keep_only[1].WER
                    ELSE MinWer(checkpointer.checkpoints)]_vars

\* C3: in a VALID or TEST stage the encoder receives exactly the batch's
\* waveforms and lengths, whatever env_corrupt and augmentation are configured.
C3_NoAugmentationOutsideTrain ==
    (calls.hook \in {"fit_batch", "evaluate_batch"} /\ calls.stage # TRAIN) =>
        /\ calls.fwd.enc_wavs = calls.fwd.batch.wavs
        /\ calls.fwd.wav_lens = calls.fwd.batch.wav_lens
        /\ Len(calls.fwd.enc_wavs) = BatchUtts

C3_Witness ==
    /\ calls.hook = "evaluate_batch" /\ calls.stage = VALID
    /\ hp.has_env_corrupt /\ hp.has_augmentation
    /\ Len(calls.fwd.enc_wavs) = BatchUtts

Count(scores, key) == Cardinality({i \in DOMAIN scores : scores[i].key = key})

\* C4: a TRAIN batch decodes nothing and no TRAIN utterance ever enters the
\* WER or CER metric; a VALID or TEST batch is decoded and each of its
\* utterances is appended once to the WER metric and once to the CER metric.
C4_DecodeAndScoreOutsideTrainOnly ==
    /\ calls.hook = "fit_batch" => calls.fwd.p_tokens.none
    /\ \A i \in DOMAIN wer_metric.scores : wer_metric.scores[i].key[2] # TRAIN
    /\ \A i \in DOMAIN cer_metric.scores : cer_metric.scores[i].key[2] # TRAIN
    /\ calls.hook = "evaluate_batch" =>
        /\ ~calls.fwd.p_tokens.none
        /\ Len(calls.fwd.p_tokens.utts) = BatchUtts
        /\ \A i \in DOMAIN calls.fwd.batch.id :
            /\ Count(wer_metric.scores, calls.fwd.batch.id[i]) = 1
            /\ Count(cer_metric.scores, calls.fwd.batch.id[i]) = 1

C4_Witness ==
    /\ calls.hook = "evaluate_batch" /\ calls.stage = TEST
    /\ nbatch = 2 /\ epoch >= 1
    /\ Len(wer_metric.scores) = 2 * BatchUtts

\* C6: the WER statistics are written to wer_file at every TEST stage end and
\* at no other stage end, and wer_file is assigned after fit and before
\* evaluate, so no stage end ever finds it undefined.
C6_WerFileWrittenAtTestEnd ==
    /\ StageEnded(TEST) =>
        /\ calls.write_stats = <<wer_file.path>>
        /\ wer_txt = [written |-> TRUE, content |-> wer_metric.scores]
    /\ (StageEnded(TRAIN) \/ StageEnded(VALID)) => calls.write_stats = <<>>
    /\ wer_txt.written => last_stage = TEST
    /\ raised # "AttributeError: wer_file"
    /\ pc \in {"start", "fit", "assign"} => ~wer_file.defined
    /\ (pc = "evaluate" \/ stage = TEST) => wer_file.defined

C6_Witness ==
    /\ pc = "done" /\ StageEnded(TEST)
    /\ wer_txt.written /\ Len(wer_txt.content) = 2 * BatchUtts
    /\ epoch = 2

\* C7: init_optimizers builds one optimizer over the wav2vec2 parameters and
\* another over the model parameters, and registers them as "wav2vec_opt" and
\* "modelopt" when there is a checkpointer, and registers nothing otherwise.
C7_TwoOptimizersRegistered ==
    pc # "start" =>
        /\ wav2vec_optimizer.defined /\ wav2vec_optimizer.params = "wav2vec2"
        /\ model_optimizer.defined /\ model_optimizer.params = "model"
        /\ checkpointer.present =>
            checkpointer.recoverables =
                {[name |-> "wav2vec_opt", params |-> "wav2vec2"],
                 [name |-> "modelopt", params |-> "model"]}
        /\ ~checkpointer.present => checkpointer.recoverables = {}

C7_Witness ==
    /\ calls.hook = "init_optimizers"
    /\ checkpointer.present
    /\ Cardinality({r.name : r \in checkpointer.recoverables}) = 2

\* C9: fit_batch steps both optimizers once when check_gradients accepts and
\* neither when it rejects, and leaves the gradients of both zeroed.
C9_OptimizersStepTogether ==
    /\ wav2vec_optimizer.grad = 0 /\ model_optimizer.grad = 0
    /\ wav2vec_optimizer.steps = model_optimizer.steps
    /\ calls.hook = "fit_batch" =>
        <<wav2vec_optimizer.steps, model_optimizer.steps>> =
            IF calls.ok
            THEN <<calls.steps_before[1] + 1, calls.steps_before[2] + 1>>
            ELSE calls.steps_before

C9_Witness ==
    /\ calls.hook = "fit_batch" /\ ~calls.ok
    /\ model_optimizer.steps = 1 /\ wav2vec_optimizer.steps = 1

\* C10: the WER and CER of a VALID or TEST stage cover exactly the batches
\* evaluated in that stage, and the training statistics logged at a VALID
\* stage end are those of the TRAIN stage end of the same epoch.
C10_StatsOfThisStageOnly ==
    /\ (stage \in {VALID, TEST} \/ StageEnded(VALID) \/ StageEnded(TEST)) =>
        /\ wer_metric = [defined |-> TRUE, scores |-> evaluated.wer]
        /\ cer_metric = [defined |-> TRUE, scores |-> evaluated.cer]
    /\ ((StageEnded(VALID) \/ StageEnded(TEST)) /\ calls.log_stats # <<>>) =>
        /\ calls.log_stats[1].stats.WER = SumErr(evaluated.wer)
        /\ calls.log_stats[1].stats.CER = SumErr(evaluated.cer)
    /\ StageEnded(VALID) =>
        /\ Len(calls.log_stats) = 1
        /\ epoch_train.epoch = epoch
        /\ calls.log_stats[1].train_stats = [defined |-> TRUE, loss |-> epoch_train.loss]

C10_Witness ==
    /\ StageEnded(TEST) /\ epoch = 2
    /\ Len(evaluated.wer) = BatchUtts
    /\ SumErr(evaluated.wer) > 0
    /\ train_stats.defined

\* C5: after dataio_prepare the label encoder knows every character of the
\* corpus transcripts and holds the blank symbol at blank_index, so that
\* encode_sequence succeeds on every transcript; the vocabulary is built at
\* most once, and the encoder is what label_encoder.txt holds.
C5_EncoderCoversCorpus ==
    /\ dpc = "prepared" =>
        /\ corpus_chars \subseteq Labels(label_encoder)
        /\ [lab |-> blank_label, ind |-> blank_index] \in label_encoder.lab2ind
        /\ lab_enc_file = [exists |-> TRUE, lab2ind |-> label_encoder.lab2ind]
    /\ dpc # "raised"
    /\ last_tokens.ok
    /\ builds <= 1

\* What does hold of the encoder: blank reserved, persisted once, reloaded.
C5_BlankPersistedOnce ==
    /\ dpc = "prepared" =>
        /\ [lab |-> blank_label, ind |-> blank_index] \in label_encoder.lab2ind
        /\ lab_enc_file = [exists |-> TRUE, lab2ind |-> label_encoder.lab2ind]
    /\ builds <= 1

BatchSizeOfSplit(s) == IF s = "test" THEN sizes.test_batch_size ELSE sizes.batch_size

InBatches(s, key) ==
    Cardinality({<<i, j>> \in (DOMAIN shard[s].batches) \X (1..MaxBatchSize + 1) :
                    /\ j \in DOMAIN shard[s].batches[i]
                    /\ shard[s].batches[i][j] = key})

\* C8: a split of n records yields n div B batches of exactly B records each,
\* B being batch_size for train and valid and test_batch_size for test; no
\* record is in two batches and the last n mod B records are in none.
C8_FullBatchesOnly ==
    \A s \in Splits :
        LET sh == shard[s]
            B == BatchSizeOfSplit(s)
        IN /\ \A i \in DOMAIN sh.batches : Len(sh.batches[i]) = B
           /\ \A k \in 1..sh.read : InBatches(s, <<s, k>>) <= 1
           /\ sh.ended =>
                /\ Len(sh.batches) = sh.read \div B
                /\ \A k \in 1..sh.read :
                      InBatches(s, <<s, k>>) = IF k <= B * (sh.read \div B) THEN 1 ELSE 0

C8_Witness ==
    /\ shard["test"].ended
    /\ shard["test"].read = 3
    /\ sizes.test_batch_size = 2 /\ sizes.batch_size = 1
    /\ Len(shard["test"].batches) = 1
    /\ shard["train"].read = 2 /\ Len(shard["train"].batches) = 2

====
